---- MODULE Spec2Model ----
(***************************************************************************)
(* AsyncEmbeddingEngine (libs/infinity_emb/infinity_emb/engine.py): the    *)
(* lifecycle flag `running`, the `_batch_handler` attribute, and the       *)
(* request methods, called from concurrent asyncio tasks.  A step of the   *)
(* model is what one coroutine executes between two suspension points:     *)
(* asyncio runs a coroutine without interleaving until it awaits something *)
(* that suspends.  BatchHandler and select_model live outside engine.py;   *)
(* they are modelled by their interface, every outcome they can produce    *)
(* being a nondeterministic choice.                                        *)
(***************************************************************************)
EXTENDS Integers, Sequences, FiniteSets, Bags, TLC

VARIABLES
    engine_args,       \* self.engine_args
    model,             \* self._model
    min_inference_t,   \* self._min_inference_t
    max_inference_t,   \* self._max_inference_t
    running,           \* self.running
    batch_handler,     \* self._batch_handler: 0 = attribute not set, n = handlers[n]
    handlers,          \* every BatchHandler constructed so far, in order
    task,              \* the concurrent callers of the engine, as a bag
    ev,                \* the last step taken and how it ended
    hist               \* history of lifecycle events (not program state)

vars == <<engine_args, model, min_inference_t, max_inference_t, running,
          batch_handler, handlers, task, ev, hist>>

\* Number of concurrent caller tasks.
NumTasks == 2
\* Number of astart calls that may pass the DoubleSpawn guard in one run.
MaxStarts == 2

-----------------------------------------------------------------------------
(* Configuration and the collaborators' interface                          *)

\* EngineArgs values the engine is constructed from.
EngineArgsSet ==
    { [model_name_or_path |-> "embedder", batch_size |-> 32,
       vector_disk_cache_path |-> "", lengths_via_tokenize |-> FALSE],
      [model_name_or_path |-> "reranker", batch_size |-> 8,
       vector_disk_cache_path |-> "/cache", lengths_via_tokenize |-> TRUE],
      [model_name_or_path |-> "classifier", batch_size |-> 1,
       vector_disk_cache_path |-> "", lengths_via_tokenize |-> TRUE] }

\* select_model(engine_args): the loaded model and its two latency bounds
\* (here in milliseconds); a deterministic function of the configuration.
select_model(args) ==
    CASE args.model_name_or_path = "embedder" ->
           <<[name |-> "embedder", capabilities |-> {"embed"}], 4, 20>>
      [] args.model_name_or_path = "reranker" ->
           <<[name |-> "reranker", capabilities |-> {"rerank"}], 7, 30>>
      [] OTHER ->
           <<[name |-> "classifier", capabilities |-> {"classify"}], 10, 10>>

\* x / 2 of line 72 is Python's true division: the exact quotient, kept as a
\* fraction so that an odd x is not rounded.
FloorDiv2(x) == [num |-> x \div 2, den |-> 1]
TrueDiv2(x) == [num |-> x, den |-> 2]

\* Outcomes of awaiting BatchHandler.spawn() / BatchHandler.shutdown().
AwaitOutcomes == {"ok", "CollaboratorError"}

\* Outcomes of awaiting a BatchHandler request: the runtime alone decides
\* whether the model has the capability the operation needs.
RequestOutcomes(fn, m) ==
    IF fn \in m.capabilities THEN {"ok", "CollaboratorError"}
                             ELSE {"ModelNotDeployedError"}

\* Whether the BatchHandler constructor returns (TRUE) or raises (FALSE).
ConstructorOutcomes == BOOLEAN

-----------------------------------------------------------------------------
(* Inputs of the request methods                                           *)

SentenceLists == { <<>>, <<"a", "b">> }
Queries == { "q" }

RequestOps == {"embed", "rerank", "classify"}
QueryOps == {"overload_status", "is_overloaded"}

NoCall == [fn |-> "none"]

-----------------------------------------------------------------------------
(* The code of engine.py, one definition per statement the claims rest on  *)

\* _check_running (lines 175-181): raises ValueError unless self.running.
check_running_always_ok(r) == "ok"
check_running(r) == IF ~r THEN "ValueError" ELSE "ok"

\* The DoubleSpawn guard of astart (lines 62-67).
astart_guard_always_ok(r) == "ok"
astart_guard(r) == IF r THEN "ValueError" ELSE "ok"

\* The value astart assigns to self.running (line 68), before it constructs
\* and spawns the BatchHandler.
astart_running_unset == FALSE
astart_running == TRUE

\* self.running once the BatchHandler constructor or spawn() has raised in
\* astart (lines 69-77): there is no try/except around them, so the flag
\* keeps the value r it has when the failure leaves astart.
astart_failed_running_reset(r) == FALSE
astart_failed_running(r) == r

\* The value astop assigns to self.running (line 82), before it awaits
\* shutdown().
astop_running_unset == TRUE
astop_running == FALSE

\* self._batch_handler after astop (lines 79-83): astop never assigns or
\* deletes the attribute, so it keeps the value h it had.
astop_handle_released(h) == 0
astop_handle(h) == h

\* What a request method ends with once the BatchHandler operation it awaits
\* has ended with out (lines 123-124, 146-150, 171-173): there is no
\* try/except and no second look at self.running (r), so the method returns
\* what the BatchHandler returned and lets through what it raised.
request_result_wrapped(out, r) == IF out = "ok" THEN out ELSE "ValueError"
request_result_rechecked(out, r) == IF r THEN out ELSE "ValueError"
request_result(out, r) == out

\* self.running after embed, rerank, classify, overload_status, is_overloaded
\* or capabilities has run (lines 91-173): none of them assigns it.
request_running_cleared(r) == FALSE
request_running(r) == r

\* The BatchHandler constructor call of astart (lines 69-76).
BatchHandlerArgs ==
    [max_batch_size |-> engine_args.batch_size,
     model |-> model,
     batch_delay |-> TrueDiv2(min_inference_t),
     vector_disk_cache_path |-> engine_args.vector_disk_cache_path,
     lengths_via_tokenize |-> engine_args.lengths_via_tokenize]

\* The call embed makes on the BatchHandler (line 123).
embed_call(c) == [fn |-> "embed", sentences |-> c.sentences]

\* The call rerank makes on the BatchHandler (lines 146-148).
rerank_call(c) ==
    [fn |-> "rerank", query |-> c.query, docs |-> c.docs,
     raw_scores |-> c.raw_scores]

\* The call classify makes on the BatchHandler (line 171): sentences only.
classify_call(c) == [fn |-> "classify", sentences |-> c.sentences]

\* The coroutine __aenter__ awaits (line 86) and the one __aexit__ awaits
\* (line 89).
aenter_awaits == "astart"
aexit_awaits_nothing == "none"
aexit_awaits == "astop"

-----------------------------------------------------------------------------
(* Callers                                                                 *)

\* What a caller passes to each request method.
CallsOf(op) ==
    CASE op = "embed" ->
           { [fn |-> "embed", sentences |-> s] : s \in SentenceLists }
      [] op = "rerank" ->
           { [fn |-> "rerank", query |-> q, docs |-> d, raw_scores |-> b] :
               q \in Queries, d \in SentenceLists, b \in BOOLEAN }
      [] op = "classify" ->
           { [fn |-> "classify", sentences |-> s, raw_scores |-> b] :
               s \in SentenceLists, b \in BOOLEAN }
      [] OTHER -> { [fn |-> op] }

\* What the engine hands to the BatchHandler for a caller's request.
Forwarded(c) ==
    CASE c.fn = "embed" -> embed_call(c)
      [] c.fn = "rerank" -> rerank_call(c)
      [] c.fn = "classify" -> classify_call(c)
      [] OTHER -> [fn |-> c.fn]

\* A task that is not inside a call.  inScope: the task is in the body of
\* `async with engine:`.
Idle(inScope) == [pc |-> "idle", fn |-> "none", via |-> "none", ep |-> 0,
                  inScope |-> inScope]

\* A task suspended in the BatchHandler operation fn, which the engine method
\* via awaits; ep is the lifecycle epoch in which via passed its guard.
Awaiting(r, fn, via, ep) ==
    [pc |-> "awaiting", fn |-> fn, via |-> via, ep |-> ep,
     inScope |-> r.inScope]

\* Tasks are interchangeable, so `task` is the bag of their states; a task
\* that is idle outside any with statement holds no state and is left out.
Free == Idle(FALSE)

\* The tasks that may make a call now: one more task while fewer than
\* NumTasks are busy, and every task idle inside a with body.
Callers ==
    (IF BagCardinality(task) < NumTasks THEN {Free} ELSE {})
        \cup {r \in BagToSet(task) : r.pc = "idle"}

Suspended == {r \in BagToSet(task) : r.pc = "awaiting"}

\* The bag after the task in state r has moved to state nxt.
Moved(r, nxt) ==
    LET out == IF r = Free THEN task ELSE task (-) SetToBag({r})
    IN IF nxt = Free THEN out ELSE out (+) SetToBag({nxt})

\* The last step taken: the method called or the BatchHandler operation that
\* returned, what the call passed and what the engine forwarded, the value of
\* self.running the method's guard read, and how the step ended.
Event(step, fn, call, fwd, saw, result, exit) ==
    [step |-> step, fn |-> fn, call |-> call, fwd |-> fwd, saw |-> saw,
     result |-> result, exit |-> exit]

\* EngineArgs(**kwargs) (line 37): the configuration built from keyword
\* arguments, field by field.
EngineArgs(kwargs) ==
    [model_name_or_path |-> kwargs["model_name_or_path"],
     batch_size |-> kwargs["batch_size"],
     vector_disk_cache_path |-> kwargs["vector_disk_cache_path"],
     lengths_via_tokenize |-> kwargs["lengths_via_tokenize"]]

\* The value __init__ assigns to self.running (line 39).
init_running_set == TRUE
init_running == FALSE

\* AsyncEmbeddingEngine(model_name_or_path, _show_deprecation_warning,
\* **kwargs), that is __init__ (lines 20-42): the attributes of the new
\* engine, and whether the deprecation warning was logged.  A positional
\* model_name_or_path ("None" when absent) overrides the keyword argument;
\* self._batch_handler is not assigned.
AsyncEmbeddingEngine(model_name_or_path, show_deprecation_warning, kwargs) ==
    LET kw == IF model_name_or_path # "None"
              THEN ("model_name_or_path" :> model_name_or_path) @@ kwargs
              ELSE kwargs
        args == EngineArgs(kw)
        selected == select_model(args)
    IN [engine_args |-> args,
        running |-> init_running,
        model |-> selected[1],
        min_inference_t |-> selected[2],
        max_inference_t |-> selected[3],
        batch_handler |-> 0,
        warned |-> show_deprecation_warning]

\* from_args (lines 44-51): cls(**asdict(engine_args),
\* _show_deprecation_warning=False); every field of engine_args is passed as
\* a keyword argument.
from_args(args) == AsyncEmbeddingEngine("None", FALSE, args)

\* The ways a caller constructs an engine for the configuration a: from_args,
\* the constructor with keyword arguments only, and the constructor with the
\* model name passed positionally.
Constructions(a) ==
    { from_args(a),
      AsyncEmbeddingEngine("None", TRUE, a),
      AsyncEmbeddingEngine(a.model_name_or_path, TRUE,
          [f \in DOMAIN a \ {"model_name_or_path"} |-> a[f]]) }

\* The lifecycle state the specification speaks of, read off the history of
\* calls: Created until a start() passes its guard; Running once a start()
\* has returned normally and no stop() passed its guard since that start()
\* was called; Stopped once a stop() has returned normally and no start()
\* passed its guard since that stop() was called.
EngineState ==
    IF hist.starts = 0 THEN "Created"
    ELSE IF hist.stopOk THEN "Stopped"
    ELSE IF hist.startOk THEN "Running"
    ELSE "Transition"

Init ==
    /\ \E a \in EngineArgsSet : \E engine \in Constructions(a) :
         /\ engine_args = engine.engine_args
         /\ model = engine.model
         /\ min_inference_t = engine.min_inference_t
         /\ max_inference_t = engine.max_inference_t
         /\ running = engine.running
         /\ batch_handler = engine.batch_handler
    /\ handlers = <<>>
    /\ task = EmptyBag
    /\ ev = Event("none", "none", NoCall, NoCall, FALSE, "none", "none")
    /\ hist = [starts |-> 0, epoch |-> 0, startOk |-> FALSE, stopOk |-> FALSE,
               everStopOk |-> FALSE, startsSinceStop |-> 0,
               stopsSinceStart |-> 0]

Config == <<engine_args, model, min_inference_t, max_inference_t>>

\* How a failed call leaves its caller: free to go on, or, inside a with
\* body that does not catch the failure, on the way out of the body.
AfterFailure(r) ==
    IF r.inScope THEN {Idle(TRUE), [Idle(TRUE) EXCEPT !.pc = "raised"]}
                 ELSE {Idle(FALSE)}

\* How the engine method via leaves its caller when it ends with out.
\* __aenter__ opens the with body only when astart returned; __aexit__
\* leaves the with statement whatever astop did.
Leaves(r, via, out) ==
    IF via = "__aenter__" THEN {Idle(out = "ok")}
    ELSE IF via = "__aexit__" THEN {Idle(FALSE)}
    ELSE IF out = "ok" THEN {Idle(r.inScope)}
    ELSE AfterFailure(r)

-----------------------------------------------------------------------------
(* astart (lines 60-77), up to its suspension in spawn()                   *)

AstartBody(r, via, exit) ==
    IF astart_guard(running) # "ok"
    THEN /\ ev' = Event("call", via, [fn |-> via], NoCall, running,
                        "ValueError", exit)
         /\ \E nxt \in Leaves(r, via, "ValueError") : task' = Moved(r, nxt)
         /\ UNCHANGED <<running, batch_handler, handlers, hist>>
    ELSE /\ hist.starts < MaxStarts
         /\ hist' = [hist EXCEPT !.starts = @ + 1, !.epoch = @ + 1,
                                 !.stopOk = FALSE, !.startsSinceStop = @ + 1,
                                 !.stopsSinceStart = 0]
         /\ \E built \in ConstructorOutcomes :
              IF built
              THEN /\ running' = astart_running
                   /\ handlers' = Append(handlers,
                          [args |-> BatchHandlerArgs, spawns |-> 1,
                           shutdowns |-> 0])
                   /\ batch_handler' = Len(handlers) + 1
                   /\ task' = Moved(r, Awaiting(r, "spawn", via,
                                                hist.epoch + 1))
                   /\ ev' = Event("call", via, [fn |-> via],
                                  [fn |-> "spawn"], running, "suspended", exit)
              ELSE /\ running' = astart_failed_running(astart_running)
                   /\ ev' = Event("call", via, [fn |-> via], NoCall, running,
                                  "CollaboratorError", exit)
                   /\ \E nxt \in Leaves(r, via, "CollaboratorError") :
                        task' = Moved(r, nxt)
                   /\ UNCHANGED <<batch_handler, handlers>>

astart ==
    \E r \in Callers :
        /\ AstartBody(r, "astart", "none")
        /\ UNCHANGED Config

\* spawn() returns or raises, and astart with it (line 77).  When astart was
\* awaited by __aenter__ and returns, the body of the with statement begins.
spawn_returns ==
    \E r \in Suspended :
        /\ r.fn = "spawn"
        /\ \E out \in AwaitOutcomes :
             /\ \E nxt \in Leaves(r, r.via, out) : task' = Moved(r, nxt)
             /\ hist' = IF out = "ok" /\ hist.epoch = r.ep
                        THEN [hist EXCEPT !.startOk = TRUE]
                        ELSE hist
             /\ running' = IF out = "ok" THEN running
                                         ELSE astart_failed_running(running)
             /\ ev' = Event("return", r.via, NoCall, [fn |-> "spawn"],
                            running, out, "none")
        /\ UNCHANGED <<batch_handler, handlers>>
        /\ UNCHANGED Config

-----------------------------------------------------------------------------
(* astop (lines 79-83), up to its suspension in shutdown()                 *)

AstopBody(r, via, exit) ==
    IF check_running(running) # "ok"
    THEN /\ ev' = Event("call", via, [fn |-> via], NoCall, running,
                        "ValueError", exit)
         /\ \E nxt \in Leaves(r, via, "ValueError") : task' = Moved(r, nxt)
         /\ UNCHANGED <<running, batch_handler, handlers, hist>>
    ELSE /\ running' = astop_running
         /\ hist' = [hist EXCEPT !.epoch = @ + 1, !.startOk = FALSE,
                                 !.stopsSinceStart = @ + 1,
                                 !.startsSinceStop = 0]
         /\ UNCHANGED batch_handler
         /\ IF batch_handler = 0
            THEN \* self._batch_handler was never assigned
                 /\ ev' = Event("call", via, [fn |-> via], NoCall, running,
                                "AttributeError", exit)
                 /\ \E nxt \in Leaves(r, via, "AttributeError") :
                      task' = Moved(r, nxt)
                 /\ UNCHANGED handlers
            ELSE /\ handlers' = [handlers EXCEPT
                                   ![batch_handler].shutdowns = @ + 1]
                 /\ task' = Moved(r, Awaiting(r, "shutdown", via,
                                              hist.epoch + 1))
                 /\ ev' = Event("call", via, [fn |-> via],
                                [fn |-> "shutdown"], running, "suspended",
                                exit)

astop ==
    \E r \in Callers :
        /\ AstopBody(r, "astop", "none")
        /\ UNCHANGED Config

\* shutdown() returns or raises, and astop with it (line 83).  When astop was
\* awaited by __aexit__, the with statement is left either way.
shutdown_returns ==
    \E r \in Suspended :
        /\ r.fn = "shutdown"
        /\ \E out \in AwaitOutcomes :
             /\ \E nxt \in Leaves(r, r.via, out) : task' = Moved(r, nxt)
             /\ hist' = IF out = "ok"
                        THEN [hist EXCEPT !.everStopOk = TRUE,
                                          !.stopOk = (@ \/ hist.epoch = r.ep)]
                        ELSE hist
             /\ batch_handler' = IF out = "ok" THEN astop_handle(batch_handler)
                                               ELSE batch_handler
             /\ ev' = Event("return", r.via, NoCall, [fn |-> "shutdown"],
                            running, out, "none")
        /\ UNCHANGED <<running, handlers>>
        /\ UNCHANGED Config

-----------------------------------------------------------------------------
(* async with engine: (lines 85-89)                                        *)

\* __aenter__ (lines 85-86): awaits astart().  When it raises, the body does
\* not run and __aexit__ is not called.
aenter ==
    \E r \in Callers :
        /\ ~r.inScope
        /\ aenter_awaits = "astart"
        /\ AstartBody(r, "__aenter__", "none")
        /\ UNCHANGED Config

\* __aexit__ (lines 88-89): awaits astop().  The with statement calls it when
\* the body returns, early or at its end (pc = "idle"), and when a call in
\* the body raised and the body did not catch it (pc = "raised").
aexit ==
    \E r \in BagToSet(task) :
        /\ r.inScope
        /\ r.pc \in {"idle", "raised"}
        /\ LET exit == IF r.pc = "idle" THEN "return" ELSE "raise"
           IN IF aexit_awaits = "astop"
              THEN AstopBody(r, "__aexit__", exit)
              ELSE /\ ev' = Event("call", "__aexit__", [fn |-> "__aexit__"],
                                  NoCall, running, "ok", exit)
                   /\ task' = Moved(r, Free)
                   /\ UNCHANGED <<running, batch_handler, handlers, hist>>
        /\ UNCHANGED Config

-----------------------------------------------------------------------------
(* embed, rerank, classify (lines 103-173)                                 *)

request ==
    \E r \in Callers :
        /\ \E op \in RequestOps : \E c \in CallsOf(op) :
             IF check_running(running) # "ok"
             THEN /\ ev' = Event("call", op, c, NoCall, running, "ValueError",
                                 "none")
                  /\ \E nxt \in AfterFailure(r) : task' = Moved(r, nxt)
             ELSE IF batch_handler = 0
             THEN /\ ev' = Event("call", op, c, NoCall, running, "AttributeError",
                                 "none")
                  /\ \E nxt \in AfterFailure(r) : task' = Moved(r, nxt)
             ELSE /\ ev' = Event("call", op, c, Forwarded(c), running,
                                 "suspended", "none")
                  /\ task' = Moved(r, Awaiting(r, op, op, 0))
        /\ running' = request_running(running)
        /\ UNCHANGED <<batch_handler, handlers, hist>>
        /\ UNCHANGED Config

\* The BatchHandler answers a request, and the method returns its answer or
\* lets its failure through.
request_returns ==
    \E r \in Suspended :
        /\ r.fn \in RequestOps
        /\ \E out \in RequestOutcomes(r.fn, model) :
             LET res == request_result(out, running)
             IN /\ ev' = Event("return", r.fn, NoCall, [fn |-> r.fn], running,
                               res, "none")
                /\ \E nxt \in Leaves(r, r.via, res) : task' = Moved(r, nxt)
        /\ running' = request_running(running)
        /\ UNCHANGED <<batch_handler, handlers, hist>>
        /\ UNCHANGED Config

\* overload_status and is_overloaded (lines 91-97): no await.
query ==
    \E r \in Callers :
        /\ \E op \in QueryOps :
             IF check_running(running) # "ok"
             THEN /\ ev' = Event("call", op, [fn |-> op], NoCall, running,
                                 "ValueError", "none")
                  /\ \E nxt \in AfterFailure(r) : task' = Moved(r, nxt)
             ELSE IF batch_handler = 0
             THEN /\ ev' = Event("call", op, [fn |-> op], NoCall, running,
                                 "AttributeError", "none")
                  /\ \E nxt \in AfterFailure(r) : task' = Moved(r, nxt)
             ELSE /\ ev' = Event("call", op, [fn |-> op], [fn |-> op], running,
                                 "ok", "none")
                  /\ UNCHANGED task
        /\ running' = request_running(running)
        /\ UNCHANGED <<batch_handler, handlers, hist>>
        /\ UNCHANGED Config

\* The capabilities property (lines 99-101): returns self._model.capabilities.
capabilities_value_guarded == IF running THEN model.capabilities ELSE {}
capabilities_value == model.capabilities

capabilities ==
    \E r \in Callers :
        /\ ev' = Event("call", "capabilities", [fn |-> "capabilities"],
                       [fn |-> "none", value |-> capabilities_value], running,
                       "ok", "none")
        /\ running' = request_running(running)
        /\ UNCHANGED <<batch_handler, handlers, hist, task>>
        /\ UNCHANGED Config

Next ==
    \/ astart
    \/ spawn_returns
    \/ astop
    \/ shutdown_returns
    \/ aenter
    \/ aexit
    \/ request
    \/ request_returns
    \/ query
    \/ capabilities

Spec == Init /\ [][Next]_vars

-----------------------------------------------------------------------------
(* Vocabulary of the properties                                            *)

StartFns == {"astart", "__aenter__"}
StopFns == {"astop", "__aexit__"}
GuardedFns == RequestOps \cup QueryOps

\* The last step was a call of one of the methods F.
Called(F) == ev.step = "call" /\ ev.fn \in F

\* A spawn() (or shutdown()) is suspended whose astart (astop) passed its
\* guard after every other lifecycle call that passed one.
InFlightNow(fn) ==
    \E r \in BagToSet(task) : r.fn = fn /\ r.ep = hist.epoch

AtMostOneInFlight(fn) ==
    \A r, q \in BagToSet(task) :
        (r.fn = fn /\ q.fn = fn /\ r.ep = hist.epoch /\ q.ep = hist.epoch)
            => (r = q /\ CopiesIn(r, task) = 1)

\* Every BatchHandler constructed so far has had shutdown() called on it.
AllShutDown(hs) == \A h \in 1..Len(hs) : hs[h].shutdowns >= 1

-----------------------------------------------------------------------------
(* C1 *)

\* C1, as stated: a call of embed, rerank, classify, overload_status or
\* is_overloaded made before any start(), or at any time after a stop() has
\* returned normally, raises ValueError.
C1_RejectedBeforeStartOrAfterStop ==
    (Called(GuardedFns) /\ (hist.starts = 0 \/ hist.everStopOk))
        => ev.result = "ValueError"

\* C1, amended: a call of embed, rerank, classify, overload_status or
\* is_overloaded made before any start(), or after a stop() has returned
\* normally and before any later start() is called, raises ValueError and
\* hands nothing to the BatchHandler.
C1_RejectedWhileCreatedOrStopped ==
    (Called(GuardedFns) /\ EngineState \in {"Created", "Stopped"})
        => (ev.result = "ValueError" /\ ev.fwd = NoCall)

\* A request is refused on an engine that was started and then stopped.
C1_Witness ==
    /\ Called(RequestOps)
    /\ EngineState = "Stopped"
    /\ ev.result = "ValueError"

-----------------------------------------------------------------------------
(* C2 *)

\* C2: a start() called when an earlier start() passed its guard and no
\* stop() has passed its guard since raises ValueError and changes nothing:
\* the flag stays true and no BatchHandler is constructed or spawned.
C2_SecondStartRejected ==
    [][ (ev'.step = "call" /\ ev'.fn \in StartFns /\ hist.startsSinceStop >= 1)
          => /\ ev'.result = "ValueError"
             /\ ev'.fwd = NoCall
             /\ running /\ running'
             /\ UNCHANGED <<batch_handler, handlers, hist>> ]_vars

\* A second start() was refused while the one BatchHandler exists.
C2_Witness ==
    /\ Called(StartFns)
    /\ ev.result = "ValueError"
    /\ running
    /\ Len(handlers) = 1
    /\ hist.starts = 1

-----------------------------------------------------------------------------
(* C3 *)

\* C3, as stated: once a stop() has returned normally, every later start()
\* raises ValueError.
C3_NoStartAfterStop ==
    (Called(StartFns) /\ hist.everStopOk) => ev.result = "ValueError"

\* C3, amended: Stopped is not terminal.  After a stop() has returned
\* normally the flag is false until the next start(); a start() raises
\* ValueError exactly when the flag is true at the call, so a start() on a
\* stopped engine passes the guard and sets the flag again.
C3_StoppedUntilRestart ==
    /\ EngineState = "Stopped" => ~running
    /\ Called(StartFns) => (ev.result = "ValueError" <=> ev.saw)
    /\ (Called(StartFns) /\ ~ev.saw) => running

\* A start() after a completed stop() passed the guard: the engine runs
\* again, with a second BatchHandler.
C3_Witness ==
    /\ Called(StartFns)
    /\ hist.everStopOk
    /\ ev.result = "suspended"
    /\ running
    /\ Len(handlers) = 2

-----------------------------------------------------------------------------
(* C4 *)

\* C4: a stop() on an engine that is Created or Stopped raises ValueError,
\* and calls shutdown() on no BatchHandler.
C4_StopRejectedUnlessStarted ==
    [][ (ev'.step = "call" /\ ev'.fn \in StopFns
            /\ EngineState \in {"Created", "Stopped"})
          => /\ ev'.result = "ValueError"
             /\ ev'.fwd = NoCall
             /\ UNCHANGED <<running, batch_handler, handlers, hist>> ]_vars

\* A second stop() was refused on a stopped engine.
C4_Witness ==
    /\ Called({"astop"})
    /\ EngineState = "Stopped"
    /\ ev.result = "ValueError"
    /\ AllShutDown(handlers)
    /\ Len(handlers) >= 1

-----------------------------------------------------------------------------
(* C5 *)

\* C5: whenever a with statement is left, by return or by a failure raised
\* in its body, __aexit__ makes exactly one astop() call (it calls
\* shutdown() on the current BatchHandler when the flag is true, and
\* raises ValueError otherwise), and from then on every BatchHandler
\* constructed so far, the one made on entry included, has had shutdown()
\* called on it.
C5_ScopeExitStopsOnce ==
    [][ (ev'.step = "call" /\ ev'.fn = "__aexit__")
          => /\ IF running
                THEN /\ ~running'
                     /\ batch_handler # 0
                     /\ ev'.fwd = [fn |-> "shutdown"]
                     /\ handlers' = [handlers EXCEPT
                            ![batch_handler].shutdowns = @ + 1]
                ELSE /\ ev'.result = "ValueError"
                     /\ UNCHANGED <<running, handlers>>
             /\ AllShutDown(handlers') ]_vars

\* A with statement was left because a call in its body raised, and
\* __aexit__ called shutdown().
C5_Witness ==
    /\ Called({"__aexit__"})
    /\ ev.exit = "raise"
    /\ ev.result = "suspended"
    /\ AllShutDown(handlers)

-----------------------------------------------------------------------------
(* C6 *)

\* C6, as stated: a request passes the lifecycle check and is handed to the
\* BatchHandler if and only if the engine is Running, that is, a start()
\* has returned normally and no stop() followed it.
C6_RequestsPassIffRunning ==
    Called(RequestOps) => (ev.result = "suspended" <=> EngineState = "Running")

\* C6, amended: a request passes the lifecycle check if and only if the
\* running flag is true, which it is exactly from the moment a start()
\* passes its guard, before the BatchHandler is constructed and spawned and
\* whether or not that succeeds, until a stop() passes its guard; a request
\* that passes is handed to the BatchHandler if one was ever constructed.
C6_RequestsPassIffFlag ==
    /\ running <=> hist.startsSinceStop = 1
    /\ Called(RequestOps) =>
         /\ ev.result # "ValueError" <=> hist.startsSinceStop = 1
         /\ ev.result = "suspended" <=>
                (hist.startsSinceStop = 1 /\ batch_handler # 0)

\* A request was handed to the BatchHandler while start() was still
\* suspended in spawn().
C6_Witness ==
    /\ Called(RequestOps)
    /\ ev.result = "suspended"
    /\ InFlightNow("spawn")
    /\ EngineState = "Transition"

-----------------------------------------------------------------------------
(* C7 *)

\* C7: the BatchHandler operation receives exactly the arguments the caller
\* passed to embed, rerank or classify.
C7_ArgumentsForwarded ==
    (Called(RequestOps) /\ ev.result = "suspended") => ev.fwd = ev.call

-----------------------------------------------------------------------------
(* C8 *)

\* C8, as stated: no BatchHandler is referenced in Created, one is
\* referenced in Running, and none is referenced any more in Stopped.
C8_HandleOnlyWhileRunning ==
    /\ EngineState = "Created" => batch_handler = 0
    /\ EngineState = "Running" => batch_handler # 0
    /\ EngineState = "Stopped" => batch_handler = 0

\* C8, amended: no BatchHandler is referenced in Created, start() makes
\* self._batch_handler reference the one it constructs, and stop() does not
\* release it: in Stopped the engine still references the BatchHandler it
\* has shut down.
C8_HandleKeptAfterStop ==
    /\ EngineState = "Created" => batch_handler = 0
    /\ EngineState = "Running" =>
         (batch_handler # 0 /\ batch_handler = Len(handlers))
    /\ EngineState = "Stopped" =>
         (batch_handler # 0 /\ handlers[batch_handler].shutdowns >= 1)

\* The engine is stopped and still references its BatchHandler.
C8_Witness ==
    /\ EngineState = "Stopped"
    /\ batch_handler = 1
    /\ handlers[1].shutdowns = 1

-----------------------------------------------------------------------------
(* C9 *)

-----------------------------------------------------------------------------
(* C10 *)

\* C10: a call of embed, rerank, classify, overload_status, is_overloaded or
\* stop() made while the flag is false raises ValueError, never returns
\* normally, and has called no operation of a BatchHandler: nothing is
\* forwarded, no task is newly suspended in the BatchHandler, and no
\* shutdown() is counted.
C10_RejectedBeforeDelegating ==
    [][ (ev'.step = "call" /\ ev'.fn \in GuardedFns \cup StopFns /\ ~running)
          => /\ ev'.result = "ValueError"
             /\ ev'.fwd = NoCall
             /\ \A r \in BagToSet(task') :
                    r.pc = "awaiting" => CopiesIn(r, task') = CopiesIn(r, task)
             /\ UNCHANGED <<running, batch_handler, handlers, hist>> ]_vars

\* overload_status was refused while a BatchHandler exists, and nothing was
\* asked of it.
C10_Witness ==
    /\ Called(QueryOps)
    /\ ev.result = "ValueError"
    /\ ev.fwd = NoCall
    /\ batch_handler # 0

-----------------------------------------------------------------------------
(* C11 *)

\* The failures a step can end with that come from a collaborator: the
\* BatchHandler's constructor, spawn(), shutdown() or a request raised.
CollaboratorFailures == {"CollaboratorError", "ModelNotDeployedError"}

Results == {"none", "ok", "suspended"}

\* C11, as stated: whatever method is called, in whatever state, and also
\* after a start() or stop() in which the BatchHandler failed, a step that
\* ends in a failure no collaborator raised ends in ValueError.
C11_OnlyValueErrorFromEngine ==
    (ev.result \notin Results \cup CollaboratorFailures)
        => ev.result = "ValueError"

-----------------------------------------------------------------------------
(* C12 *)

\* The last step was the return of the request method fn from its await.
Returned(F) == ev.step = "return" /\ ev.fn \in F

\* C12: embed, rerank or classify called on a Running engine is handed to the
\* BatchHandler whether or not the model has the capability (no check of its
\* own, no ValueError); when the model lacks the capability the call ends
\* with the BatchHandler's ModelNotDeployedError, unchanged; and the step in
\* which it ends changes neither the flag, nor the BatchHandler the engine
\* holds, nor the lifecycle state.
C12_CapabilityErrorSurfaced ==
    [][ /\ (ev'.step = "call" /\ ev'.fn \in RequestOps
              /\ EngineState = "Running")
            => /\ ev'.result = "suspended"
               /\ ev'.fwd.fn = ev'.fn
               /\ EngineState' = "Running"
        /\ (ev'.step = "return" /\ ev'.fn \in RequestOps
              /\ ev'.fn \notin model.capabilities)
            => /\ ev'.result = "ModelNotDeployedError"
               /\ EngineState' = EngineState
               /\ UNCHANGED <<running, batch_handler, handlers>> ]_vars

\* A request the model has no capability for came back with the
\* BatchHandler's error while the engine is Running.
C12_Witness ==
    /\ Returned(RequestOps)
    /\ ev.fn \notin model.capabilities
    /\ ev.result = "ModelNotDeployedError"
    /\ EngineState = "Running"
    /\ running

-----------------------------------------------------------------------------
(* C13 *)

\* The methods that serve requests and queries.
ReadOnlyFns == RequestOps \cup QueryOps \cup {"capabilities"}

\* The requests suspended in the BatchHandler, counted with multiplicity.
RequestsInFlight ==
    BagCardinality([r \in {q \in BagToSet(task) : q.fn \in RequestOps}
                      |-> CopiesIn(r, task)])

\* C13: a step of embed, rerank, classify, overload_status, is_overloaded or
\* capabilities (the call, and for a request also its return from the
\* BatchHandler), whether it is refused, fails or succeeds and whatever other
\* requests are in flight, leaves the lifecycle state, the flag, the
\* BatchHandler the engine holds, the model, the latency bounds and the
\* engine arguments as they were; nor does it construct, spawn or shut down
\* a BatchHandler.
C13_RequestsLeaveEngineUnchanged ==
    [][ (ev'.fn \in ReadOnlyFns)
          => /\ EngineState' = EngineState
             /\ UNCHANGED <<running, batch_handler, handlers>>
             /\ UNCHANGED <<model, min_inference_t, max_inference_t,
                            engine_args>> ]_vars

\* A second request was handed to the BatchHandler of a Running engine while
\* another one is still suspended in it.
C13_Witness ==
    /\ Called(RequestOps)
    /\ ev.result = "suspended"
    /\ RequestsInFlight = 2
    /\ EngineState = "Running"

-----------------------------------------------------------------------------
(* C14 *)

\* C14: no step of stop() (its call, the clearing of the flag, the call of
\* shutdown(), its return) takes a suspended request out of its await: the
\* requests suspended in the BatchHandler before the step are suspended after
\* it.  And a request that returns from the BatchHandler, be the flag false
\* by then, ends with an outcome the BatchHandler produces for it, never
\* with the engine's ValueError.
C14_StopLeavesRequestsInFlight ==
    [][ /\ (ev'.fn \in StopFns)
            => \A r \in BagToSet(task) :
                   r.fn \in RequestOps => CopiesIn(r, task') = CopiesIn(r, task)
        /\ (ev'.step = "return" /\ ev'.fn \in RequestOps)
            => /\ ev'.result \in RequestOutcomes(ev'.fn, model)
               /\ ev'.result # "ValueError" ]_vars

\* A request handed to the BatchHandler before stop() returned its result
\* after stop() had cleared the flag and called shutdown().
C14_Witness ==
    /\ Returned(RequestOps)
    /\ ev.result = "ok"
    /\ ~running
    /\ hist.startsSinceStop = 0
    /\ batch_handler # 0
    /\ handlers[batch_handler].shutdowns >= 1

-----------------------------------------------------------------------------
(* C15 *)

\* C15: reading capabilities never fails, whatever the lifecycle state
\* (Created, Running, Stopped, or in between), and yields the capability set
\* of the model that select_model returned for the engine's arguments at
\* construction: the same set in every state.
C15_CapabilitiesAlwaysReadable ==
    Called({"capabilities"})
        => /\ ev.result = "ok"
           /\ ev.fwd.value = select_model(engine_args)[1].capabilities
           /\ ev.fwd.value # {}

\* capabilities was read on a Stopped engine, whose flag is false.
C15_Witness ==
    /\ Called({"capabilities"})
    /\ EngineState = "Stopped"
    /\ ~running
    /\ ev.result = "ok"

-----------------------------------------------------------------------------
(* C16 *)

\* C16: an engine built by from_args or by the constructor is Created, and
\* for as long as no start() has passed its guard: the flag is false; the
\* model and the two latency bounds are the triple select_model returns for
\* the engine's arguments; the engine holds no BatchHandler, none has been
\* constructed, and no spawn() is in progress.  The constructor and
\* from_args build the same engine; only the deprecation warning differs.
C16_ConstructedIsCreated ==
    /\ EngineState = "Created"
         => /\ ~running
            /\ <<model, min_inference_t, max_inference_t>>
                 = select_model(engine_args)
            /\ batch_handler = 0
            /\ handlers = <<>>
            /\ \A r \in BagToSet(task) : r.fn # "spawn"
    /\ (ev.step = "none")
         => /\ EngineState = "Created"
            /\ \A engine \in Constructions(engine_args) :
                 /\ [engine EXCEPT !.warned = FALSE] = from_args(engine_args)
                 /\ engine.warned = (engine # from_args(engine_args))
                 /\ <<engine.engine_args, engine.model, engine.min_inference_t,
                      engine.max_inference_t, engine.running,
                      engine.batch_handler>>
                      = <<engine_args, model, min_inference_t,
                          max_inference_t, running, batch_handler>>

\* The engine as the constructor left it, for the reranker configuration.
C16_Witness ==
    /\ ev.step = "none"
    /\ engine_args.model_name_or_path = "reranker"
    /\ model.capabilities = {"rerank"}
    /\ min_inference_t = 7
    /\ ~running

-----------------------------------------------------------------------------
(* C17 *)

\* C17: every BatchHandler the engine has constructed was given the engine's
\* own configuration: its maximum batch size, cache path and tokenization
\* flag are those of the engine arguments, its model is the model
\* select_model returned, and its batch delay d is half the minimum inference
\* time exactly (2 * d = min_inference_t, d being the fraction num / den).
C17_BatchHandlerFromConfig ==
    \A h \in 1..Len(handlers) :
        LET a == handlers[h].args
        IN /\ a.max_batch_size = engine_args.batch_size
           /\ a.vector_disk_cache_path = engine_args.vector_disk_cache_path
           /\ a.lengths_via_tokenize = engine_args.lengths_via_tokenize
           /\ a.model = select_model(engine_args)[1]
           /\ a.batch_delay.den > 0
           /\ 2 * a.batch_delay.num
                = select_model(engine_args)[2] * a.batch_delay.den

\* A start() constructed the BatchHandler of the reranker engine, whose
\* minimum inference time is odd.
C17_Witness ==
    /\ Called(StartFns)
    /\ ev.result = "suspended"
    /\ engine_args.model_name_or_path = "reranker"
    /\ handlers[batch_handler].args.max_batch_size = 8
    /\ handlers[batch_handler].args.vector_disk_cache_path = "/cache"
    /\ handlers[batch_handler].args.batch_delay.num = 7

-----------------------------------------------------------------------------
(* C18 *)

\* The number of times op ("spawns" or "shutdowns") was invoked, over all
\* the BatchHandlers hs.
RECURSIVE Invocations(_, _)
Invocations(hs, op) ==
    IF hs = <<>> THEN 0 ELSE hs[1][op] + Invocations(Tail(hs), op)

\* No BatchHandler constructor has raised: every start() that passed the
\* guard has constructed its BatchHandler.
NoConstructorRaised == hist.starts = Len(handlers)

\* C18: as long as no BatchHandler constructor has raised, however start(),
\* stop() and requests interleave, the spawn() invocations outnumber the
\* shutdown() invocations by one when the flag is true and by none when it
\* is false; so the difference is 0 or 1, and at most one BatchHandler has
\* been spawned and not told to shut down.
C18_SpawnsMinusShutdowns ==
    NoConstructorRaised
        => /\ Invocations(handlers, "spawns")
                - Invocations(handlers, "shutdowns")
                = IF running THEN 1 ELSE 0
           /\ Cardinality({h \in 1..Len(handlers) :
                             handlers[h].spawns > handlers[h].shutdowns}) <= 1
           /\ \A h \in 1..Len(handlers) :
                  handlers[h].shutdowns <= handlers[h].spawns

\* After start(), stop(), start(), with one request in flight: two spawn()
\* invocations, one shutdown(), and the flag is true.
C18_Witness ==
    /\ NoConstructorRaised
    /\ running
    /\ Invocations(handlers, "spawns") = 2
    /\ Invocations(handlers, "shutdowns") = 1
    /\ RequestsInFlight >= 1

-----------------------------------------------------------------------------
(* C19 *)

\* C19: when the BatchHandler constructor raises in start(), the failure is
\* what start() ends with and the flag, set before the constructor ran, is
\* true afterwards; when spawn() raises, the failure is what start() ends
\* with and the flag is left as it is.  So, unless a stop() has passed its
\* check since, the call that follows a failed start() finds the flag true:
\* a start() is refused with ValueError, while embed, rerank, classify,
\* overload_status, is_overloaded and stop() pass the running check.
C19_FailedStartKeepsFlag ==
    [][ /\ (ev'.fn \in StartFns /\ ev'.result = "CollaboratorError")
            => running' = (IF ev'.step = "call" THEN TRUE ELSE running)
        /\ (/\ ev.fn \in StartFns
            /\ ev.result = "CollaboratorError"
            /\ hist.startsSinceStop = 1
            /\ ev'.step = "call")
            => /\ running
               /\ ev'.saw
               /\ (ev'.fn \in StartFns) => ev'.result = "ValueError"
               /\ (ev'.fn \in GuardedFns \cup StopFns)
                    => ev'.result # "ValueError" ]_vars

\* The only start() so far failed in the BatchHandler constructor, and a
\* request that followed passed the running check.
C19_Witness ==
    /\ Called(GuardedFns)
    /\ ev.saw
    /\ ev.result # "ValueError"
    /\ hist.starts = 1
    /\ handlers = <<>>
    /\ running

-----------------------------------------------------------------------------
(* C20 *)

\* Some stop() is suspended in shutdown().
ShutdownSuspended == \E r \in BagToSet(task) : r.fn = "shutdown"

\* The number of stop() calls that have passed the running check.
StopsPassed == hist.epoch - hist.starts

\* C20, as stated: while a shutdown() is suspended, and when it has raised,
\* the flag is false, and embed, rerank, classify, overload_status,
\* is_overloaded and stop() raise ValueError; shutdown() has been invoked at
\* most once for each stop() that passed the running check.
C20_FlagFalseWhileShutdownSuspended ==
    /\ ShutdownSuspended => ~running
    /\ (ev.step = "return" /\ ev.fn \in StopFns
          /\ ev.result = "CollaboratorError") => ~running
    /\ (Called(GuardedFns \cup StopFns) /\ ev.result # "suspended"
          /\ ShutdownSuspended) => ev.result = "ValueError"
    /\ Invocations(handlers, "shutdowns") <= StopsPassed

\* C20, amended: stop() clears the flag before it awaits shutdown() and
\* nothing in stop() sets it again; so while that shutdown() is suspended,
\* and when it has raised, the flag is false for as long as no start() has
\* passed its guard since, and until then embed, rerank, classify,
\* overload_status, is_overloaded and a further stop() raise ValueError.  A
\* start() may pass its guard while the shutdown() is still suspended.
\* shutdown() has been invoked at most once for each stop() that passed the
\* running check.
C20_FlagClearedBeforeShutdown ==
    /\ (ShutdownSuspended /\ hist.startsSinceStop = 0) => ~running
    /\ InFlightNow("shutdown") => ~running
    /\ (ev.step = "return" /\ ev.fn \in StopFns /\ hist.startsSinceStop = 0)
         => ~running
    /\ (Called(StopFns) /\ ev.result # "ValueError") => (ev.saw /\ ~running)
    /\ (Called(GuardedFns \cup StopFns) /\ ~ev.saw)
         => ev.result = "ValueError"
    /\ (Called(GuardedFns) /\ hist.startsSinceStop = 0)
         => ev.result = "ValueError"
    /\ Invocations(handlers, "shutdowns") <= StopsPassed

\* A further stop() was refused while the shutdown() of the stop() before it
\* is suspended.
C20_Witness ==
    /\ Called(StopFns)
    /\ ev.result = "ValueError"
    /\ InFlightNow("shutdown")
    /\ ~running
    /\ Invocations(handlers, "shutdowns") = 1

====
